---- MODULE Spec2Model ----
(***************************************************************************)
(* Loyalty-program natural-language-to-SQL server: the question -> SQL ->  *)
(* execute -> insights pipeline with its mock fallbacks, the process-wide  *)
(* quota flag and schema cache, and the YAML schema loader.                *)
(*                                                                         *)
(* Three specifications share the variables:                               *)
(*   Spec       the HTTP server handling concurrent POST /api/query        *)
(*   SpecMock   the pure keyword routers applied to bounded texts          *)
(*   SpecLoader loadDatabaseSchema run against bounded file systems        *)
(***************************************************************************)
EXTENDS Integers, Sequences, FiniteSets, TLC

VARIABLES
    impl,                 \* which route module the process registered
    openaiKey,            \* process.env.OPENAI_API_KEY
    apiKeyQuotaExceeded,  \* global.apiKeyQuotaExceeded   (shared/schema.ts:169)
    schemaCache,          \* let schemaCache              (part_006:4)
    req,                  \* per in-flight request: handler position and locals
    fnArg,                \* SpecMock: the text handed to the keyword routers
    fnOut,                \* SpecMock: what they returned
    fsDir,                \* SpecLoader: the schema directory
    fsWritable,           \* SpecLoader: whether the file system accepts writes
    loaded                \* SpecLoader: what loadDatabaseSchema returned

vars == <<impl, openaiKey, apiKeyQuotaExceeded, schemaCache, req,
          fnArg, fnOut, fsDir, fsWritable, loaded>>

serverVars == <<impl, openaiKey, apiKeyQuotaExceeded, schemaCache, req>>
mockVars   == <<fnArg, fnOut>>
loaderVars == <<fsDir, fsWritable, loaded>>

(***************************************************************************)
(* Bounds                                                                  *)
(***************************************************************************)
MaxWords == 3        \* longest text handed to the keyword routers

(***************************************************************************)
(* JavaScript values.  Every value is a tagged record so that values of    *)
(* different types can be compared.                                        *)
(***************************************************************************)
Undef == [t |-> "undefined"]
Null == [t |-> "null"]
Str(s) == [t |-> "string", s |-> s]      \* a text: a sequence of words
Lit(s) == Str(<<s>>)                      \* a one-piece string
Obj(count, time) == [t |-> "object", count |-> count, time |-> time]
Num(n) == [t |-> "number", n |-> n]
IsString(v) == v.t = "string"

\* JavaScript truthiness, as used by `!query` and `!question`
Truthy(v) ==
    CASE v.t = "undefined" -> FALSE
      [] v.t = "null"      -> FALSE
      [] v.t = "string"    -> Len(v.s) > 0
      [] v.t = "number"    -> v.n # 0
      [] OTHER             -> TRUE

(***************************************************************************)
(* Texts.  A text is a sequence of words; String.includes looks for a      *)
(* keyword inside any word, String.toLowerCase folds the case per word.    *)
(***************************************************************************)
Lower(w) ==
    CASE w = "SELECT"     -> "select"
      [] w = "DELETE"     -> "delete"
      [] w = "Top"        -> "top"
      [] w = "POINTS"     -> "points"
      [] w = "Expiring"   -> "expiring"
      [] w = "expiryDate" -> "expirydate"
      [] OTHER            -> w

\* the keywords (of those the code looks for) occurring inside a lower-case word
Substrings(w) ==
    CASE w = "top"                   -> {"top"}
      [] w = "point"                 -> {"point"}
      [] w = "points"                -> {"point", "points"}
      [] w = "expiring"              -> {"expiring"}
      [] w = "challenge"             -> {"challenge"}
      [] w = "challenges"            -> {"challenge", "challenges"}
      [] w = "completion"            -> {"completion"}
      [] w = "challenge_completions" -> {"challenge", "completion", "challenge_completions"}
      [] w = "transaction"           -> {"transaction"}
      [] w = "points_transactions"   -> {"point", "points", "transaction", "points_transactions"}
      [] w = "select"                -> {"select"}
      [] OTHER                       -> {}

toLowerCase(text) == [i \in 1..Len(text) |-> Lower(text[i])]

includes(text, kw) == \E i \in 1..Len(text) : kw \in Substrings(text[i])

\* sqlQuery.trim().toLowerCase().startsWith('select')
startsWithSelect_any(text) == TRUE

startsWithSelect(text) == Len(text) > 0 /\ "select" \in Substrings(Lower(text[1]))

(***************************************************************************)
(* Canned SQL of generateMockSQLResponse.  Each text keeps every keyword   *)
(* the routers look for that occurs in the source text (none holds "top",  *)
(* none holds "expiring").                                                 *)
(***************************************************************************)
MockSqlTop ==
    <<"SELECT", "customers", "points_transactions", "points", "earn">>
MockSqlExpiring ==
    <<"SELECT", "customers", "points_transactions", "points", "expiryDate">>
MockSqlChallenge ==
    <<"SELECT", "challenges", "challenge_completions">>
MockSqlDefault ==
    <<"SELECT", "customers", "points_transactions", "points">>

UnderstandingTop == "You want to see which customers have earned the most points in total."
UnderstandingExpiring == "You're looking for customers with points that are going to expire soon."
UnderstandingChallenge == "You want to see the completion rates for different loyalty program challenges."
UnderstandingDefault == "I've interpreted your question as a request to see customers with the most loyalty points."

TitleTop == "Top Points Earners Analysis"
TitleExpiring == "Points Expiration Risk Analysis"
TitleChallenge == "Challenge Completion Rate Analysis"
TitleDefault == "Customer Loyalty Points Analysis"

List(n, of) == [t |-> "list", n |-> n, of |-> of]

\* generateMockSQLResponse(question), question a string
generateMockSQLResponse_swapped(question) ==
    LET lowerQuestion == toLowerCase(question) IN
    IF includes(lowerQuestion, "expiring")
    THEN [query |-> Str(MockSqlExpiring), understanding |-> Lit(UnderstandingExpiring)]
    ELSE IF includes(lowerQuestion, "top") /\ includes(lowerQuestion, "point")
    THEN [query |-> Str(MockSqlTop), understanding |-> Lit(UnderstandingTop)]
    ELSE IF includes(lowerQuestion, "challenge") /\ includes(lowerQuestion, "completion")
    THEN [query |-> Str(MockSqlChallenge), understanding |-> Lit(UnderstandingChallenge)]
    ELSE [query |-> Str(MockSqlDefault), understanding |-> Lit(UnderstandingDefault)]

generateMockSQLResponse(question) ==
    LET lowerQuestion == toLowerCase(question) IN
    IF includes(lowerQuestion, "top") /\ includes(lowerQuestion, "point")
    THEN [query |-> Str(MockSqlTop), understanding |-> Lit(UnderstandingTop)]
    ELSE IF includes(lowerQuestion, "expiring")
    THEN [query |-> Str(MockSqlExpiring), understanding |-> Lit(UnderstandingExpiring)]
    ELSE IF includes(lowerQuestion, "challenge") /\ includes(lowerQuestion, "completion")
    THEN [query |-> Str(MockSqlChallenge), understanding |-> Lit(UnderstandingChallenge)]
    ELSE [query |-> Str(MockSqlDefault), understanding |-> Lit(UnderstandingDefault)]

\* generateMockAnalysisResponse(question, data): three insights, two recommendations
generateMockAnalysisResponse(question) ==
    LET lowerQuestion == toLowerCase(question)
        canned(title) == [title |-> Lit(title),
                          insights |-> List(3, title),
                          recommendations |-> List(2, title)]
    IN
    IF includes(lowerQuestion, "top") /\ includes(lowerQuestion, "point")
    THEN canned(TitleTop)
    ELSE IF includes(lowerQuestion, "expiring")
    THEN canned(TitleExpiring)
    ELSE IF includes(lowerQuestion, "challenge") /\ includes(lowerQuestion, "completion")
    THEN canned(TitleChallenge)
    ELSE canned(TitleDefault)

(***************************************************************************)
(* QueryService mock records (five rows each) and the fallback router in   *)
(* the catch block of QueryService.executeQuery.                           *)
(***************************************************************************)
Rows(src, n) == [t |-> "rows", src |-> src, n |-> n]

getMockTopPointsEarners == Rows("MockTopPointsEarners", 5)
getMockExpiringPoints == Rows("MockExpiringPoints", 5)
getMockChallengeCompletions == Rows("MockChallengeCompletions", 5)

\* the catch block of executeQuery, sqlQuery a string
executeQueryFallback_point(sqlQuery) ==
    LET lowerQuery == toLowerCase(sqlQuery) IN
    IF includes(lowerQuery, "top") /\ includes(lowerQuery, "point")
    THEN getMockTopPointsEarners
    ELSE IF includes(lowerQuery, "expiring")
    THEN getMockExpiringPoints
    ELSE IF includes(lowerQuery, "challenge") /\ includes(lowerQuery, "completion")
    THEN getMockChallengeCompletions
    ELSE getMockTopPointsEarners

executeQueryFallback(sqlQuery) ==
    LET lowerQuery == toLowerCase(sqlQuery) IN
    IF includes(lowerQuery, "top") /\ includes(lowerQuery, "points")
    THEN getMockTopPointsEarners
    ELSE IF includes(lowerQuery, "expiring")
    THEN getMockExpiringPoints
    ELSE IF includes(lowerQuery, "challenge") /\ includes(lowerQuery, "completion")
    THEN getMockChallengeCompletions
    ELSE getMockTopPointsEarners

(***************************************************************************)
(* Errors: what a rejected promise or a throw carries.  `status`, `type`   *)
(* and `code` are error.status, error.error.type and error.error.code of   *)
(* the OpenAI client; they are absent ("none", 0) on other errors.         *)
(***************************************************************************)
Err(name, message, status, type, code) ==
    [name |-> name, message |-> message, status |-> status, type |-> type, code |-> code]

TypeErrorNotAFunction == Err("TypeError", "question.toLowerCase is not a function", 0, "none", "none")
TypeErrorUndefined == Err("TypeError", "Cannot read properties of undefined (reading 'toLowerCase')", 0, "none", "none")
SyntaxErrorJson == Err("SyntaxError", "Unexpected token in JSON", 0, "none", "none")
NetworkError == Err("Error", "connect ECONNREFUSED", 0, "none", "none")
ServerError == Err("APIError", "500 internal error", 500, "server_error", "none")
RateLimitError == Err("RateLimitError", "429 rate limit reached", 429, "requests", "rate_limit_exceeded")
QuotaTypeError == Err("APIError", "You exceeded your current quota", 403, "insufficient_quota", "none")
QuotaCodeError == Err("APIError", "quota", 400, "invalid_request_error", "insufficient_quota")

\* the errors an LLM request can reject with
LlmErrors == {ServerError, NetworkError, RateLimitError, QuotaTypeError, QuotaCodeError}

\* the test in both catch blocks of shared/schema.ts
IsQuotaError_any(error) == TRUE

IsQuotaError(error) ==
    \/ error.status = 429
    \/ error.type = "insufficient_quota"
    \/ error.code = "insufficient_quota"

(***************************************************************************)
(* QueryService.executeQuery: the outcome of the POST /execute-query call  *)
(* is `outcome`; the result is either a returned value or a throw.         *)
(***************************************************************************)
Return(v) == [threw |-> FALSE, value |-> v]
Throw(e) == [threw |-> TRUE, error |-> e]

UpstreamBodies == {Rows("upstream", 0), Rows("upstream", 2)}
DataOutcomes == {[ok |-> TRUE, data |-> b] : b \in UpstreamBodies} \cup {[ok |-> FALSE]}

executeQuery(sqlQuery, outcome) ==
    IF outcome.ok
    THEN Return(outcome.data)
    ELSE IF IsString(sqlQuery)
         THEN Return(executeQueryFallback(sqlQuery.s))
         ELSE Throw(TypeErrorUndefined)      \* sqlQuery.toLowerCase() on a non-string

(***************************************************************************)
(* SpecMock: the keyword routers applied to every text of at most MaxWords *)
(* words over Vocabulary.                                                  *)
(***************************************************************************)
Vocabulary == {"top", "Top", "point", "POINTS", "expiring", "challenge", "completion", "hello"}

Texts == UNION {[1..n -> Vocabulary] : n \in 0..MaxWords}

NoOut == [sql |-> Undef, analysis |-> Undef, exec |-> Undef]

CallGenerateMockSQLResponse ==
    /\ fnOut.sql = Undef
    /\ fnOut' = [fnOut EXCEPT !.sql = generateMockSQLResponse(fnArg)]
    /\ UNCHANGED fnArg

CallGenerateMockAnalysisResponse ==
    /\ fnOut.analysis = Undef
    /\ fnOut' = [fnOut EXCEPT !.analysis = generateMockAnalysisResponse(fnArg)]
    /\ UNCHANGED fnArg

CallExecuteQuery ==
    /\ fnOut.exec = Undef
    /\ \E outcome \in DataOutcomes :
          fnOut' = [fnOut EXCEPT !.exec =
                       [outcome |-> outcome, result |-> executeQuery(Str(fnArg), outcome)]]
    /\ UNCHANGED fnArg


(***************************************************************************)
(* The server.  `impl` is the route module the process registered:         *)
(*   "routes"     server/routes.ts       (generateSQL, queryService, ...)  *)
(*   "simplified" the registerRoutes that delegates to the simplified      *)
(*                LoyaltyAgent                                             *)
(*   "langchain"  server/langchain/routes.ts with the chain-based agent    *)
(***************************************************************************)
Impls == {"routes", "simplified", "langchain"}
Slots == {1, 2}

\* process.env.OPENAI_API_KEY: unset, or a string with a prefix and a length
Key(prefix, len) == [t |-> "string", prefix |-> prefix, len |-> len]
Keys == {Undef, Key("sk-", 20), Key("pk-", 40), Key("sk-", 51)}

\* isValidApiKey()
isValidApiKey_ignoresFlag ==
    /\ openaiKey.t = "string"
    /\ openaiKey.len > 0
    /\ openaiKey.prefix = "sk-"
    /\ openaiKey.len > 20

isValidApiKey_anyPrefix ==
    IF apiKeyQuotaExceeded = TRUE
    THEN FALSE
    ELSE /\ openaiKey.t = "string"
         /\ openaiKey.len > 20

isValidApiKey ==
    IF apiKeyQuotaExceeded = TRUE
    THEN FALSE
    ELSE /\ openaiKey.t = "string"
         /\ openaiKey.len > 0
         /\ openaiKey.prefix = "sk-"
         /\ openaiKey.len > 20

\* questions a client asks, and request bodies
Questions == {<<"Top", "points">>, <<"Expiring", "points">>,
              <<"challenge", "completion">>, <<"hello">>}
FieldValues == {Undef, Str(<<>>), Num(42)} \cup {Str(q) : q \in Questions}
Bodies == {[query |-> v, question |-> Undef] : v \in FieldValues}
          \cup {[query |-> Undef, question |-> v] : v \in FieldValues}
\* bodies of a request that arrives while another one is being served
ConcurrentBodies == {[query |-> Str(<<"hello">>), question |-> Undef],
                     [query |-> Undef, question |-> Str(<<"hello">>)]}

NoBody == [query |-> Undef, question |-> Undef]
Idle == [pc |-> "idle", body |-> NoBody, calls |-> <<>>, sql |-> Undef,
         results |-> Undef, meta |-> Undef, analysis |-> Undef, res |-> Undef]

\* res.json(body): JSON.stringify drops the fields whose value is undefined
json(body) == [f \in {g \in DOMAIN body : body[g] # Undef} |-> body[f]]

\* the handlers' responses
Respond(rq, status, body) ==
    [rq EXCEPT !.pc = "done", !.res = [status |-> status, body |-> json(body)]]

\* server/routes.ts 51-57: catch (error) { res.status(500).json({message, error: error.message}) }
Respond500_ok(rq, error) ==
    Respond(rq, 200, [message |-> Lit("Error processing query"), error |-> Lit(error.message)])

Respond500(rq, error) ==
    Respond(rq, 500, [message |-> Lit("Error processing query"), error |-> Lit(error.message)])

\* server/routes.ts 39-50: res.json({...})
Respond200(rq, analysis) ==
    Respond([rq EXCEPT !.analysis = analysis], 200,
            [queryUnderstanding |-> rq.sql.understanding,
             sqlQuery |-> rq.sql.query,
             databaseResults |-> Obj(Num(rq.results.n), Num(0)),
             title |-> analysis.title,
             data |-> rq.results,
             insights |-> analysis.insights,
             recommendations |-> analysis.recommendations])

\* the mock generators called with whatever the body held: a non-string has no toLowerCase
MockSQL(question) ==
    IF IsString(question)
    THEN Return(generateMockSQLResponse(question.s))
    ELSE Throw(TypeErrorNotAFunction)

MockAnalysis(question) ==
    IF IsString(question)
    THEN Return(generateMockAnalysisResponse(question.s))
    ELSE Throw(TypeErrorNotAFunction)

(***************************************************************************)
(* server/routes.ts POST /api/query, cut at its awaits.  Code between two  *)
(* awaits on external I/O runs without interleaving (one event loop).      *)
(***************************************************************************)
\* routes.ts 31-50: analyzeQueryResults returned `result`
AfterAnalyze(rq, result) ==
    IF result.threw THEN Respond500(rq, result.error) ELSE Respond200(rq, result.value)

\* routes.ts 32 / schema.ts 466-476: analyzeQueryResults up to its first await
BeginAnalyze_alwaysLive(rq, valid) ==
    [rq EXCEPT !.pc = "analyze", !.calls = Append(@, "llm-insights")]

BeginAnalyze(rq, valid) ==
    IF valid
    THEN [rq EXCEPT !.pc = "analyze", !.calls = Append(@, "llm-insights")]
    ELSE AfterAnalyze(rq, MockAnalysis(rq.body.query))

\* routes.ts 26-28: generateSQL returned `result`; executeQuery posts to the data API
AfterGenerateSQL_retries(rq, result) ==
    IF result.threw
    THEN [rq EXCEPT !.pc = "done",
                    !.res = [status |-> 500,
                             body |-> [message |-> Lit("Error processing query"),
                                       error |-> Lit(result.error.message)]]]
    ELSE [rq EXCEPT !.sql = result.value, !.pc = "exec",
                    !.calls = Append(Append(@, "data"), "data")]

AfterGenerateSQL(rq, result) ==
    IF result.threw
    THEN Respond500(rq, result.error)
    ELSE [rq EXCEPT !.sql = result.value, !.pc = "exec", !.calls = Append(@, "data")]

\* routes.ts 21 / schema.ts 369-379: generateSQL up to its first await
BeginGenerateSQL(rq, valid) ==
    IF valid
    THEN [rq EXCEPT !.pc = "genSQL", !.calls = Append(@, "llm-sql")]
    ELSE AfterGenerateSQL(rq, MockSQL(rq.body.query))

\* what the /schema endpoint can answer, and the fallback of getDatabaseSchema
Schema(src, tables) == [t |-> "schema", src |-> src, tables |-> tables]
UpstreamSchema == Schema("upstream", 2)
fallbackSchema == Schema("fallback", 4)
SchemaOutcomes == {[ok |-> TRUE, data |-> UpstreamSchema], [ok |-> FALSE]}

\* routes.ts 13 and part_005 17: if (!query)
QueryIsRequired(body) == ~Truthy(body.query)

\* langchain/routes.ts 15: if (!question || typeof question !== 'string')
QuestionIsRequired_missingOnly(body) == body.question = Undef

QuestionIsRequired(body) == ~Truthy(body.question) \/ ~IsString(body.question)

\* routes.ts 9-24: validation, then getDatabaseSchema up to its await (or a cache hit)
ReceiveRoutes(r, body) ==
    /\ impl = "routes"
    /\ LET rq == [Idle EXCEPT !.body = body] IN
       req' = [req EXCEPT ![r] =
                 IF QueryIsRequired(body)
                 THEN Respond(rq, 400, [message |-> Lit("Query is required")])
                 ELSE IF Truthy(schemaCache)
                 THEN BeginGenerateSQL(rq, isValidApiKey)
                 ELSE [rq EXCEPT !.pc = "schema", !.calls = Append(@, "schema")]]
    /\ UNCHANGED <<apiKeyQuotaExceeded, schemaCache>>

\* part_006 31-43 and 44-104: the GET /schema request settles
GetDatabaseSchemaSettles(r, outcome) ==
    /\ impl = "routes"
    /\ req[r].pc = "schema"
    /\ schemaCache' = IF outcome.ok THEN outcome.data ELSE fallbackSchema
    /\ req' = [req EXCEPT ![r] = BeginGenerateSQL(req[r], isValidApiKey)]
    /\ UNCHANGED apiKeyQuotaExceeded

\* what the chat-completion call of generateSQL can resolve to: message.content
SqlContents == {"full", "empty", "unparsable"}
LlmSql == <<"SELECT", "customers">>

\* schema.ts 439-445: JSON.parse(content || '{}'), then {query, understanding}
ParseSqlContent(content) ==
    CASE content = "full"  -> Return([query |-> Str(LlmSql), understanding |-> Lit("llm")])
      [] content = "empty" -> Return([query |-> Undef, understanding |-> Undef])
      [] OTHER             -> Throw(SyntaxErrorJson)

\* schema.ts 446-460: the catch block of generateSQL
GenerateSQLCatches(r, error) ==
    /\ apiKeyQuotaExceeded' = (apiKeyQuotaExceeded \/ IsQuotaError(error))
    /\ req' = [req EXCEPT ![r] = AfterGenerateSQL(req[r], MockSQL(req[r].body.query))]

GenerateSQLResolves(r, content) ==
    /\ impl = "routes"
    /\ req[r].pc = "genSQL"
    /\ LET parsed == ParseSqlContent(content) IN
       IF parsed.threw
       THEN GenerateSQLCatches(r, parsed.error)
       ELSE /\ req' = [req EXCEPT ![r] = AfterGenerateSQL(req[r], parsed)]
            /\ UNCHANGED apiKeyQuotaExceeded
    /\ UNCHANGED schemaCache

GenerateSQLRejects(r, error) ==
    /\ impl = "routes"
    /\ req[r].pc = "genSQL"
    /\ GenerateSQLCatches(r, error)
    /\ UNCHANGED schemaCache

\* routes.ts 28-36: the POST /execute-query request settles
ExecuteQuerySettles(r, outcome) ==
    /\ impl = "routes"
    /\ req[r].pc = "exec"
    /\ LET result == executeQuery(req[r].sql.query, outcome) IN
       req' = [req EXCEPT ![r] =
                 IF result.threw
                 THEN Respond500(req[r], result.error)
                 ELSE BeginAnalyze([req[r] EXCEPT !.results = result.value], isValidApiKey)]
    /\ UNCHANGED <<apiKeyQuotaExceeded, schemaCache>>

\* what the chat-completion call of analyzeQueryResults can resolve to
AnalysisContents == {"full", "empty", "unparsable"}

\* schema.ts 531-538
ParseAnalysisContent(content) ==
    CASE content = "full"  -> Return([title |-> Lit("llm"), insights |-> List(4, "llm"),
                                      recommendations |-> List(3, "llm")])
      [] content = "empty" -> Return([title |-> Undef, insights |-> Undef,
                                      recommendations |-> Undef])
      [] OTHER             -> Throw(SyntaxErrorJson)

\* schema.ts 539-553: the catch block of analyzeQueryResults
AnalyzeCatches(r, error) ==
    /\ apiKeyQuotaExceeded' = (apiKeyQuotaExceeded \/ IsQuotaError(error))
    /\ req' = [req EXCEPT ![r] = AfterAnalyze(req[r], MockAnalysis(req[r].body.query))]

AnalyzeResolves(r, content) ==
    /\ impl = "routes"
    /\ req[r].pc = "analyze"
    /\ LET parsed == ParseAnalysisContent(content) IN
       IF parsed.threw
       THEN AnalyzeCatches(r, parsed.error)
       ELSE /\ req' = [req EXCEPT ![r] = AfterAnalyze(req[r], parsed)]
            /\ UNCHANGED apiKeyQuotaExceeded
    /\ UNCHANGED schemaCache

AnalyzeRejects(r, error) ==
    /\ impl = "routes"
    /\ req[r].pc = "analyze"
    /\ AnalyzeCatches(r, error)
    /\ UNCHANGED schemaCache


(***************************************************************************)
(* The two LoyaltyAgent implementations.  Both call the LLM through        *)
(* ChatOpenAI directly: neither consults isValidApiKey nor the quota flag. *)
(***************************************************************************)
\* SQL texts the model can answer with (response.content.toString().trim())
AgentSqls == {<<"SELECT", "customers">>, <<"SELECT", "points_transactions">>,
              <<"SELECT", "challenges">>, <<"SELECT", "challenges", "challenge_completions">>,
              <<"DELETE", "customers">>}

\* bodies of the data API's GET /query: {results, count, time}, fields optional
AgentDataOutcomes ==
    {[ok |-> TRUE, results |-> Rows("upstream", 2), count |-> Num(2)],
     [ok |-> TRUE, results |-> Rows("upstream", 2), count |-> Undef],
     [ok |-> TRUE, results |-> Rows("upstream", 0), count |-> Num(0)],
     [ok |-> TRUE, results |-> Undef, count |-> Undef],
     [ok |-> FALSE]}

EmptyRows == Rows("none", 0)
Or(v, default) == IF Truthy(v) THEN v ELSE default

\* mock records of the agents (five rows each)
getMockCustomers == Rows("MockCustomers", 5)
getMockTransactions == Rows("MockTransactions", 5)
getMockChallenges == Rows("MockChallenges", 5)
getMockCompletions == Rows("MockChallengeCompletions", 5)

\* agent.ts 91-100: the mock type chosen from the SQL text
mockTypeOf_noExclusion(sqlQuery) ==
    LET sqlLower == toLowerCase(sqlQuery) IN
    IF includes(sqlLower, "points_transactions") \/ includes(sqlLower, "transaction")
    THEN "transactions"
    ELSE IF includes(sqlLower, "challenges")
    THEN "challenges"
    ELSE IF includes(sqlLower, "challenge_completions") \/ includes(sqlLower, "completion")
    THEN "completions"
    ELSE "customers"

mockTypeOf(sqlQuery) ==
    LET sqlLower == toLowerCase(sqlQuery) IN
    IF includes(sqlLower, "points_transactions") \/ includes(sqlLower, "transaction")
    THEN "transactions"
    ELSE IF includes(sqlLower, "challenges") /\ ~includes(sqlLower, "challenge_completions")
    THEN "challenges"
    ELSE IF includes(sqlLower, "challenge_completions") \/ includes(sqlLower, "completion")
    THEN "completions"
    ELSE "customers"

\* part_003 55-81: createMockDataTool's func, as parsed back by the agent
mockDataTool(type) ==
    LET data == CASE type \in {"customers", "customer"} -> getMockCustomers
                  [] type \in {"transactions", "points", "points_transactions"} -> getMockTransactions
                  [] type \in {"challenges", "challenge"} -> getMockChallenges
                  [] type \in {"completions", "challenge_completions"} -> getMockCompletions
                  [] OTHER -> Undef
    IN IF data = Undef
       THEN [error |-> Lit("Unknown data type"), data |-> Undef, metadata |-> Undef]
       ELSE [error |-> Undef, data |-> data,
             metadata |-> Obj(Num(data.n), Num(0))]

\* part_004 569-583: getMockData of the simplified agent
getMockData(sqlQuery) ==
    LET sqlLower == toLowerCase(sqlQuery) IN
    IF includes(sqlLower, "points_transactions") \/ includes(sqlLower, "transaction")
    THEN getMockTransactions
    ELSE IF includes(sqlLower, "challenges") /\ ~includes(sqlLower, "challenge_completions")
    THEN getMockChallenges
    ELSE IF includes(sqlLower, "challenge_completions") \/ includes(sqlLower, "completion")
    THEN getMockCompletions
    ELSE getMockCustomers

\* apiClient.ts 46-52 and part_004 199-205: the success branch of executeQuery
ApiResult(outcome) ==
    [error |-> Undef,
     data |-> Or(outcome.results, EmptyRows),
     metadata |-> Obj(Or(outcome.count, Num(0)), Num(0))]

\* part_004 178-219: executeQuery of the simplified agent
simplifiedExecuteQuery(sqlQuery, outcome) ==
    IF outcome.ok
    THEN ApiResult(outcome)
    ELSE [error |-> Undef, data |-> getMockData(sqlQuery),
          metadata |-> Obj(Num(5), Num(1))]

\* part_003 13-44 with apiClient.ts 32-80: the SQL tool's JSON, parsed back
sqlToolResult(outcome) ==
    IF outcome.ok
    THEN ApiResult(outcome)
    ELSE [error |-> Lit("API error"), data |-> EmptyRows, metadata |-> Undef]

sqlToolRefusal == [error |-> Lit("Only SELECT queries are allowed for security reasons."),
                   data |-> Undef, metadata |-> Undef]

\* agent.ts 76-108: mock substitution, then data and metadata
withMockData(sqlQuery, queryResults) ==
    LET isError == Truthy(queryResults.error)
        chosen == IF isError \/ ~Truthy(queryResults.data) \/ queryResults.data.n = 0
                  THEN mockDataTool(mockTypeOf(sqlQuery))
                  ELSE queryResults
        data == Or(chosen.data, EmptyRows)
    IN [data |-> data,
        metadata |-> Or(chosen.metadata, Obj(Num(data.n), Num(0)))]

\* the results of processQuestion
AgentResult(rq, analysis) ==
    [queryUnderstanding |-> Lit("I'm looking for loyalty program data that answers"),
     sqlQuery |-> rq.sql,
     databaseResults |-> rq.meta,
     title |-> analysis.title,
     data |-> rq.results,
     insights |-> analysis.insights,
     recommendations |-> analysis.recommendations]

\* agent.ts 171-199 and part_004 108-136: the outer catch of processQuestion
AgentErrorFallback_withMock(message) ==
    [queryUnderstanding |-> Lit("There was an error understanding your question."),
     sqlQuery |-> Str(<<>>),
     databaseResults |-> Obj(Num(5), Num(0)),
     title |-> Lit("Error Processing Query"),
     data |-> getMockCustomers,
     insights |-> List(1, <<"Error: ", message>>),
     recommendations |-> List(1, "Try Again")]

AgentErrorFallback(message) ==
    [queryUnderstanding |-> Lit("There was an error understanding your question."),
     sqlQuery |-> Str(<<>>),
     databaseResults |-> Obj(Num(0), Num(0)),
     title |-> Lit("Error Processing Query"),
     data |-> EmptyRows,
     insights |-> List(1, <<"Error: ", message>>),
     recommendations |-> List(1, "Try Again")]

\* how the route answers with a result of processQuestion (res.json, status 200)
RespondAgent(rq, result) == Respond(rq, 200, result)

\* part_005 13-24 and langchain/routes.ts 11-24: validation, then the SQL LLM call
ReceiveAgent(r, body) ==
    /\ impl \in {"simplified", "langchain"}
    /\ LET rq == [Idle EXCEPT !.body = body] IN
       req' = [req EXCEPT ![r] =
                 IF impl = "simplified" /\ QueryIsRequired(body)
                 THEN Respond(rq, 400, [message |-> Lit("Query is required")])
                 ELSE IF impl = "langchain" /\ QuestionIsRequired(body)
                 THEN Respond(rq, 400,
                              [error |-> Lit("A question is required in the request body")])
                 ELSE [rq EXCEPT !.pc = "genSQL", !.calls = Append(@, "llm-sql")]]
    /\ UNCHANGED <<apiKeyQuotaExceeded, schemaCache>>

\* agent.ts 62-73 and part_004 83-87, 168: the SQL LLM call resolved with `sql`
AgentSqlResolves(r, sql) ==
    /\ impl \in {"simplified", "langchain"}
    /\ req[r].pc = "genSQL"
    /\ LET rq == [req[r] EXCEPT !.sql = Str(sql)] IN
       req' = [req EXCEPT ![r] =
                 IF impl = "langchain" /\ ~startsWithSelect(sql)
                 THEN LET got == withMockData(sql, sqlToolRefusal) IN
                      [rq EXCEPT !.results = got.data, !.meta = got.metadata,
                                 !.pc = "analyze", !.calls = Append(@, "llm-insights")]
                 ELSE [rq EXCEPT !.pc = "exec", !.calls = Append(@, "data")]]
    /\ UNCHANGED <<apiKeyQuotaExceeded, schemaCache>>

\* part_004 169-172 (rethrown as "Failed to generate SQL: ...") and agent.ts 171
AgentSqlRejects(r, error) ==
    /\ impl \in {"simplified", "langchain"}
    /\ req[r].pc = "genSQL"
    /\ LET message == IF impl = "simplified"
                      THEN <<"Failed to generate SQL: ", error.message>>
                      ELSE <<error.message>> IN
       req' = [req EXCEPT ![r] = RespondAgent(req[r], AgentErrorFallback(message))]
    /\ UNCHANGED <<apiKeyQuotaExceeded, schemaCache>>

\* agent.ts 73-122 and part_004 87-91: the GET /query request settles
AgentExecuteSettles(r, outcome) ==
    /\ impl \in {"simplified", "langchain"}
    /\ req[r].pc = "exec"
    /\ LET got == IF impl = "simplified"
                  THEN simplifiedExecuteQuery(req[r].sql.s, outcome)
                  ELSE withMockData(req[r].sql.s, sqlToolResult(outcome)) IN
       req' = [req EXCEPT ![r] =
                 [req[r] EXCEPT !.results = got.data, !.meta = got.metadata,
                                !.pc = "analyze", !.calls = Append(@, "llm-insights")]]
    /\ UNCHANGED <<apiKeyQuotaExceeded, schemaCache>>

\* the placeholders of the insights step
Placeholder_empty(insight, recommendation) ==
    [title |-> Lit("Data Analysis"), insights |-> List(0, insight),
     recommendations |-> List(0, recommendation)]

Placeholder(insight, recommendation) ==
    [title |-> Lit("Data Analysis"), insights |-> List(1, insight),
     recommendations |-> List(1, recommendation)]

\* agent.ts 124-143 and part_004 259-290: the insights text parsed
ParseInsights(content) ==
    CASE content = "full"  -> [title |-> Lit("llm"), insights |-> List(4, "llm"),
                               recommendations |-> List(3, "llm")]
      [] content = "empty" -> [title |-> Lit("Data Analysis"), insights |-> List(0, "llm"),
                               recommendations |-> List(0, "llm")]
      [] OTHER -> IF impl = "langchain"
                  THEN Placeholder("Unable to parse insights from the analysis.", "Retry Query")
                  ELSE Placeholder("Unable to generate insights from the data.", "Review Query")

AgentInsightsResolves(r, content) ==
    /\ impl \in {"simplified", "langchain"}
    /\ req[r].pc = "analyze"
    /\ req' = [req EXCEPT ![r] =
                 RespondAgent(req[r], AgentResult(req[r], ParseInsights(content)))]
    /\ UNCHANGED <<apiKeyQuotaExceeded, schemaCache>>

\* agent.ts 144-156 and part_004 291-305
AgentInsightsRejects(r, error) ==
    /\ impl \in {"simplified", "langchain"}
    /\ req[r].pc = "analyze"
    /\ req' = [req EXCEPT ![r] =
                 RespondAgent(req[r], AgentResult(req[r],
                     Placeholder("Unable to generate insights from the data.", "Review Query")))]
    /\ UNCHANGED <<apiKeyQuotaExceeded, schemaCache>>

(***************************************************************************)
(* Spec: the server                                                        *)
(***************************************************************************)
Receive(r, body) ==
    /\ req[r].pc = "idle"
    /\ \A o \in Slots : o < r => req[o].pc # "idle"     \* slots are handed out in order
    /\ body \in (IF \A o \in Slots : req[o].pc = "idle" THEN Bodies ELSE ConcurrentBodies)
    /\ (ReceiveRoutes(r, body) \/ ReceiveAgent(r, body))

\* the response has been written out; the handler's locals are gone
Close(r) ==
    /\ req[r].pc = "done"
    /\ req' = [req EXCEPT ![r] = Idle]
    /\ UNCHANGED <<apiKeyQuotaExceeded, schemaCache>>

Init ==
    /\ impl \in Impls
    /\ openaiKey \in (IF impl = "routes" THEN Keys ELSE {Key("sk-", 51)})
    /\ apiKeyQuotaExceeded = FALSE
    /\ schemaCache = Null
    /\ req = [r \in Slots |-> Idle]
    /\ fnArg = <<>>
    /\ fnOut = NoOut
    /\ fsDir = Null
    /\ fsWritable = TRUE
    /\ loaded = Undef

Next ==
    \/ \E r \in Slots, body \in Bodies : Receive(r, body) /\ UNCHANGED <<impl, openaiKey, mockVars, loaderVars>>
    \/ \E r \in Slots : Close(r) /\ UNCHANGED <<impl, openaiKey, mockVars, loaderVars>>
    \/ \E r \in Slots, o \in SchemaOutcomes :
          GetDatabaseSchemaSettles(r, o) /\ UNCHANGED <<impl, openaiKey, mockVars, loaderVars>>
    \/ \E r \in Slots, c \in SqlContents :
          GenerateSQLResolves(r, c) /\ UNCHANGED <<impl, openaiKey, mockVars, loaderVars>>
    \/ \E r \in Slots, e \in LlmErrors :
          GenerateSQLRejects(r, e) /\ UNCHANGED <<impl, openaiKey, mockVars, loaderVars>>
    \/ \E r \in Slots, o \in DataOutcomes :
          ExecuteQuerySettles(r, o) /\ UNCHANGED <<impl, openaiKey, mockVars, loaderVars>>
    \/ \E r \in Slots, c \in AnalysisContents :
          AnalyzeResolves(r, c) /\ UNCHANGED <<impl, openaiKey, mockVars, loaderVars>>
    \/ \E r \in Slots, e \in LlmErrors :
          AnalyzeRejects(r, e) /\ UNCHANGED <<impl, openaiKey, mockVars, loaderVars>>
    \/ \E r \in Slots, q \in AgentSqls :
          AgentSqlResolves(r, q) /\ UNCHANGED <<impl, openaiKey, mockVars, loaderVars>>
    \/ \E r \in Slots, e \in LlmErrors :
          AgentSqlRejects(r, e) /\ UNCHANGED <<impl, openaiKey, mockVars, loaderVars>>
    \/ \E r \in Slots, o \in AgentDataOutcomes :
          AgentExecuteSettles(r, o) /\ UNCHANGED <<impl, openaiKey, mockVars, loaderVars>>
    \/ \E r \in Slots, c \in AnalysisContents :
          AgentInsightsResolves(r, c) /\ UNCHANGED <<impl, openaiKey, mockVars, loaderVars>>
    \/ \E r \in Slots, e \in LlmErrors :
          AgentInsightsRejects(r, e) /\ UNCHANGED <<impl, openaiKey, mockVars, loaderVars>>

Spec == Init /\ [][Next]_vars


(***************************************************************************)
(* SpecMock: the keyword routers on every bounded text                     *)
(***************************************************************************)
InitMock ==
    /\ fnArg \in Texts
    /\ fnOut = NoOut
    /\ impl = "routes"
    /\ openaiKey = Undef
    /\ apiKeyQuotaExceeded = FALSE
    /\ schemaCache = Null
    /\ req = [r \in Slots |-> Idle]
    /\ fsDir = Null
    /\ fsWritable = TRUE
    /\ loaded = Undef

NextMock ==
    \/ CallGenerateMockSQLResponse /\ UNCHANGED <<serverVars, loaderVars>>
    \/ CallGenerateMockAnalysisResponse /\ UNCHANGED <<serverVars, loaderVars>>
    \/ CallExecuteQuery /\ UNCHANGED <<serverVars, loaderVars>>

SpecMock == InitMock /\ [][NextMock]_vars

(***************************************************************************)
(* SpecLoader: loadDatabaseSchema (schemaLoader.ts; the simplified agent   *)
(* carries a copy of it, part_004 311-359).  The schema directory is       *)
(* missing (Null) or a set of files; a file is a YAML file or not, and a   *)
(* YAML file holds a table, something else, or text yaml.load rejects.     *)
(***************************************************************************)
File(name, yaml, content) == [name |-> name, yaml |-> yaml, content |-> content]
Dir(files) == [t |-> "dir", files |-> files]

\* the four files createSampleSchemaFile writes
SampleFiles == {File("customers.yml", TRUE, "table"),
                File("points_transactions.yml", TRUE, "table"),
                File("challenges.yml", TRUE, "table"),
                File("challenge_completions.yml", TRUE, "table")}

\* files found in a deployment's schema directory
OtherFiles == {File("daily_client_orders.yml", TRUE, "table"),
               File("daily_client_coupons.yaml", TRUE, "table"),
               File("notes.yml", TRUE, "other"),
               File("broken.yml", TRUE, "malformed"),
               File("README.md", FALSE, "other")}

\* createSampleSchemaFile(directory): writeFileSync overwrites; a failing write is
\* caught and logged (schemaLoader.ts 231-255)
createSampleSchemaFile_nothing(dir, writable) == dir

createSampleSchemaFile(dir, writable) ==
    IF writable
    THEN Dir({f \in dir.files : f.name \notin {g.name : g \in SampleFiles}} \cup SampleFiles)
    ELSE dir

\* files.filter(file => file.endsWith('.yml') || file.endsWith('.yaml'))
yamlFiles(dir) == {f \in dir.files : f.yaml}

InitLoader ==
    /\ fsDir \in {Null} \cup {Dir(fs) : fs \in SUBSET OtherFiles}
    /\ fsWritable \in BOOLEAN
    /\ loaded = Undef
    /\ impl = "langchain"
    /\ openaiKey = Undef
    /\ apiKeyQuotaExceeded = FALSE
    /\ schemaCache = Null
    /\ req = [r \in Slots |-> Idle]
    /\ fnArg = <<>>
    /\ fnOut = NoOut

\* loadDatabaseSchema(), schemaLoader.ts 24-72
loadDatabaseSchema ==
    LET missing == fsDir = Null
        mkdirThrows == missing /\ ~fsWritable
        d1 == IF missing THEN createSampleSchemaFile(Dir({}), fsWritable) ELSE fsDir
        files1 == yamlFiles(d1)
        d2 == IF files1 = {} THEN createSampleSchemaFile(d1, fsWritable) ELSE d1
        log == (IF missing THEN {"Schema directory does not exist. Creating it."} ELSE {})
               \cup (IF mkdirThrows THEN {"Error loading database schema"} ELSE {})
               \cup (IF ~mkdirThrows /\ files1 = {}
                     THEN {"No schema files found. Creating sample schema file."} ELSE {})
               \cup (IF ~mkdirThrows /\ ~fsWritable /\ (missing \/ files1 = {})
                     THEN {"Error creating sample schema files"} ELSE {})
    IN
    IF mkdirThrows
    THEN /\ loaded' = [tables |-> {}, log |-> log]
         /\ UNCHANGED fsDir
    ELSE \E sampleFile \in (IF yamlFiles(d2) = {} THEN {Undef} ELSE yamlFiles(d2)) :
           LET files == IF files1 = {}
                        THEN (IF sampleFile = Undef THEN {} ELSE {sampleFile})
                        ELSE files1
               parseThrows == \E f \in files : f.content = "malformed"
           IN
           /\ fsDir' = d2
           /\ loaded' = IF parseThrows
                        THEN [tables |-> {}, log |-> log \cup {"Error loading database schema"}]
                        ELSE [tables |-> {f.name : f \in {g \in files : g.content = "table"}},
                              log |-> log]

LoadDatabaseSchema ==
    /\ loadDatabaseSchema
    /\ UNCHANGED fsWritable

NextLoader ==
    LoadDatabaseSchema /\ UNCHANGED <<serverVars, mockVars>>

SpecLoader == InitLoader /\ [][NextLoader]_vars


(***************************************************************************)
(* SpecSchema: the GET /api/schema handlers.  server/routes.ts (and the    *)
(* registerRoutes that delegates to the simplified agent) answer with      *)
(* queryService.getDatabaseSchema(); server/langchain/routes.ts answers    *)
(* with loadDatabaseSchema() wrapped in an object.                         *)
(***************************************************************************)
\* part_006 24: if (schemaCache)
cacheHit_never == FALSE

cacheHit == Truthy(schemaCache)

\* res.json(schema) of a getDatabaseSchema result: an object with a tables array
SchemaBody(schema) == [tables |-> List(schema.tables, schema.src)]

\* routes.ts 61-64 with part_006 22-30: the handler up to the await of axios.get
GetSchemaRoutes(r) ==
    /\ impl \in {"routes", "simplified"}
    /\ req[r].pc = "idle"
    /\ \A o \in Slots : o < r => req[o].pc # "idle"
    /\ req' = [req EXCEPT ![r] =
                 IF cacheHit
                 THEN Respond(Idle, 200, SchemaBody(schemaCache))
                 ELSE [Idle EXCEPT !.pc = "getSchema", !.calls = <<"schema">>]]
    /\ UNCHANGED <<schemaCache, loaderVars>>

\* part_006 31-104 with routes.ts 64: the GET /schema request settles
GetSchemaSettles(r, outcome) ==
    /\ req[r].pc = "getSchema"
    /\ schemaCache' = IF outcome.ok THEN outcome.data ELSE fallbackSchema
    /\ req' = [req EXCEPT ![r] = Respond(req[r], 200, SchemaBody(schemaCache'))]
    /\ UNCHANGED loaderVars

\* langchain/routes.ts 40-49: res.status(200).json({ schema })
GetSchemaLangchain(r) ==
    /\ impl = "langchain"
    /\ req[r].pc = "idle"
    /\ \A o \in Slots : o < r => req[o].pc # "idle"
    /\ loadDatabaseSchema
    /\ req' = [req EXCEPT ![r] =
                 Respond(Idle, 200, [schema |-> [tables |-> loaded'.tables]])]
    /\ UNCHANGED <<schemaCache, fsWritable>>

InitSchema ==
    /\ impl \in Impls
    /\ schemaCache = Null
    /\ req = [r \in Slots |-> Idle]
    /\ fsDir \in (IF impl = "langchain"
                  THEN {Null} \cup {Dir(fs) : fs \in SUBSET OtherFiles}
                  ELSE {Null})
    /\ fsWritable \in (IF impl = "langchain" THEN BOOLEAN ELSE {TRUE})
    /\ loaded = Undef
    /\ openaiKey = Undef
    /\ apiKeyQuotaExceeded = FALSE
    /\ fnArg = <<>>
    /\ fnOut = NoOut

NextSchema ==
    \/ \E r \in Slots : GetSchemaRoutes(r) /\ UNCHANGED <<impl, openaiKey, apiKeyQuotaExceeded, mockVars>>
    \/ \E r \in Slots, o \in SchemaOutcomes :
          GetSchemaSettles(r, o) /\ UNCHANGED <<impl, openaiKey, apiKeyQuotaExceeded, mockVars>>
    \/ \E r \in Slots : GetSchemaLangchain(r) /\ UNCHANGED <<impl, openaiKey, apiKeyQuotaExceeded, mockVars>>
    \/ \E r \in Slots : Close(r) /\ UNCHANGED <<impl, openaiKey, mockVars, loaderVars>>

SpecSchema == InitSchema /\ [][NextSchema]_vars


(***************************************************************************)
(* Claims                                                                  *)
(***************************************************************************)
\* vocabulary of the claims, stated independently of the operators above
QuotaErrorAsClaimed(e) ==
    e.status = 429 \/ e.type = "insufficient_quota" \/ e.code = "insufficient_quota"
KeyLooksValid == openaiKey.t = "string" /\ openaiKey.prefix = "sk-" /\ openaiKey.len > 20
Count(calls, kind) == Cardinality({i \in 1..Len(calls) : calls[i] = kind})
LlmCalls(calls) == Count(calls, "llm-sql") + Count(calls, "llm-insights")
\* in this step request r entered generateSQL / analyzeQueryResults
EntersGenerateSQL(r) ==
    /\ impl = "routes"
    /\ req[r].pc \in {"idle", "schema"}
    /\ req'[r].pc \in {"genSQL", "exec"} \/ (req'[r].pc = "done" /\ req'[r].res.status = 500)
EntersAnalyze(r) ==
    /\ impl = "routes"
    /\ req[r].pc = "exec"
    /\ req'[r].results # Undef
\* in this step the LLM call of request r failed with error e (parse failures included)
SqlCallFails(r, e) ==
    \/ GenerateSQLRejects(r, e)
    \/ e = SyntaxErrorJson /\ GenerateSQLResolves(r, "unparsable")
AnalyzeCallFails(r, e) ==
    \/ AnalyzeRejects(r, e)
    \/ e = SyntaxErrorJson /\ AnalyzeResolves(r, "unparsable")

\* C1: once a generateSQL or analyzeQueryResults call has caught a quota error
\* (status 429, type or code insufficient_quota) the flag apiKeyQuotaExceeded is
\* true and stays true, and from then on no such call, in any request and under
\* any interleaving, starts an LLM request: a call with a string question returns
\* the canned response of the mock generator.
C1_QuotaFlagDisablesLlm ==
    [][ /\ \A r \in Slots, e \in LlmErrors :
             (QuotaErrorAsClaimed(e) /\ (SqlCallFails(r, e) \/ AnalyzeCallFails(r, e)))
                => apiKeyQuotaExceeded'
        /\ apiKeyQuotaExceeded => apiKeyQuotaExceeded'
        /\ (impl = "routes" /\ apiKeyQuotaExceeded) =>
              \A r \in Slots :
                 /\ LlmCalls(req'[r].calls) <= LlmCalls(req[r].calls)
                 /\ (EntersGenerateSQL(r) /\ IsString(req'[r].body.query))
                       => /\ req'[r].pc = "exec"
                          /\ req'[r].sql = generateMockSQLResponse(req'[r].body.query.s)
                 /\ (EntersAnalyze(r) /\ IsString(req'[r].body.query))
                       => /\ req'[r].pc = "done"
                          /\ req'[r].analysis = generateMockAnalysisResponse(req'[r].body.query.s)
      ]_vars

\* C1 witness: the flag is set, the key itself is well-formed, and a request has
\* been answered 200 without a single LLM call
C1_Witness ==
    /\ impl = "routes" /\ apiKeyQuotaExceeded /\ KeyLooksValid
    /\ \E r \in Slots :
          /\ req[r].pc = "done" /\ req[r].res.status = 200
          /\ LlmCalls(req[r].calls) = 0
          /\ req[r].analysis = generateMockAnalysisResponse(req[r].body.query.s)


\* what a failing call hands back: the mock generator's response for the question
SqlFallbackReturned(r) ==
    IsString(req[r].body.query) =>
        /\ req'[r].pc = "exec"
        /\ req'[r].sql = generateMockSQLResponse(req[r].body.query.s)
AnalysisFallbackReturned(r) ==
    IsString(req[r].body.query) =>
        /\ req'[r].pc = "done" /\ req'[r].res.status = 200
        /\ req'[r].analysis = generateMockAnalysisResponse(req[r].body.query.s)
\* a call entered now, with the key the process holds, would go to the LLM
NextCallWouldGoLive == isValidApiKey

\* C2 as stated: a failure that is not a quota error leaves the flag unchanged, the
\* failing call returns the mock response, and the next call made with a valid
\* (well-formed) API key goes to the LLM again.
C2_AsStated ==
    [][ \A r \in Slots, e \in LlmErrors \cup {SyntaxErrorJson} :
          ~QuotaErrorAsClaimed(e) =>
             /\ SqlCallFails(r, e) =>
                   /\ apiKeyQuotaExceeded' = apiKeyQuotaExceeded
                   /\ SqlFallbackReturned(r)
                   /\ KeyLooksValid => NextCallWouldGoLive'
             /\ AnalyzeCallFails(r, e) =>
                   /\ apiKeyQuotaExceeded' = apiKeyQuotaExceeded
                   /\ AnalysisFallbackReturned(r)
                   /\ KeyLooksValid => NextCallWouldGoLive'
      ]_vars

\* C2 amended: a failure that is not a quota error leaves the flag unchanged and the
\* failing call returns the mock response; the next call made with a well-formed
\* key goes to the LLM again unless the flag was already set, by a quota error some
\* other (concurrent) call caught while this one was in flight.
C2_NonQuotaFailureKeepsFlag ==
    [][ \A r \in Slots, e \in LlmErrors \cup {SyntaxErrorJson} :
          ~QuotaErrorAsClaimed(e) =>
             /\ SqlCallFails(r, e) =>
                   /\ apiKeyQuotaExceeded' = apiKeyQuotaExceeded
                   /\ SqlFallbackReturned(r)
                   /\ (KeyLooksValid /\ ~apiKeyQuotaExceeded) => NextCallWouldGoLive'
             /\ AnalyzeCallFails(r, e) =>
                   /\ apiKeyQuotaExceeded' = apiKeyQuotaExceeded
                   /\ AnalysisFallbackReturned(r)
                   /\ (KeyLooksValid /\ ~apiKeyQuotaExceeded) => NextCallWouldGoLive'
      ]_vars

\* C2 witness: a request whose SQL call failed (it holds the mock SQL although an LLM
\* call was made) went on to a live insights call, the flag still being false
C2_Witness ==
    /\ impl = "routes" /\ ~apiKeyQuotaExceeded
    /\ \E r \in Slots :
          /\ req[r].pc = "analyze"
          /\ LlmCalls(req[r].calls) = 2
          /\ req[r].sql = generateMockSQLResponse(req[r].body.query.s)


\* the pipeline's external calls in their order
FullPipeline == <<"llm-sql", "data", "llm-insights">>
RECURSIVE IsSubsequence(_, _)
IsSubsequence(a, b) ==
    IF a = <<>> THEN TRUE
    ELSE IF b = <<>> THEN FALSE
    ELSE IF Head(a) = Head(b) THEN IsSubsequence(Tail(a), Tail(b))
    ELSE IsSubsequence(a, Tail(b))
\* the call a handler is waiting for
PendingCall(pc) ==
    CASE pc = "schema"  -> "schema"
      [] pc = "genSQL"  -> "llm-sql"
      [] pc = "exec"    -> "data"
      [] pc = "analyze" -> "llm-insights"
      [] OTHER          -> "none"

\* C3 as stated: every POST /api/query that passes validation makes exactly one LLM
\* call (SQL), then exactly one data-API call, then exactly one LLM call (insights),
\* and no other external call.  (Stated here for the requests answered 200 only.)
C3_AsStated ==
    \A r \in Slots :
       (req[r].pc = "done" /\ req[r].res.status = 200) => req[r].calls = FullPipeline

\* C3 amended: a request makes at most one SQL LLM call, then at most one data-API
\* call, then at most one insights LLM call, in that order and each started only
\* after the previous one has completed; a step is skipped when the LLM is not used
\* (server/routes.ts) or when an earlier step failed or refused the query (the
\* agents); the only other external call is the GET /schema of server/routes.ts,
\* made before the SQL step while the schema cache is empty.
C3_AtMostOneCallEachInOrder ==
    \A r \in Slots :
       /\ IsSubsequence(req[r].calls, <<"schema">> \o FullPipeline)
       /\ Count(req[r].calls, "schema") > 0 => impl = "routes"
       /\ req[r].pc \in {"schema", "genSQL", "exec", "analyze"}
             => req[r].calls[Len(req[r].calls)] = PendingCall(req[r].pc)
       /\ (req[r].pc = "done" /\ req[r].res.status = 400) => req[r].calls = <<>>
       /\ (req[r].pc = "done" /\ req[r].res.status = 200 /\ impl = "routes")
             => Count(req[r].calls, "data") = 1

\* C3 witness: a request of server/routes.ts served with exactly the three calls
\* (schema cached, LLM used twice), and another one that skipped the LLM
C3_Witness ==
    /\ impl = "routes"
    /\ \E r \in Slots :
          req[r].pc = "done" /\ req[r].res.status = 200 /\ req[r].calls = FullPipeline
    /\ \E r \in Slots :
          req[r].pc = "done" /\ req[r].res.status = 200 /\ req[r].calls = <<"schema", "llm-sql", "data">>


\* the body field a route reads the question from
QuestionField(body) == IF impl = "langchain" THEN body.question ELSE body.query
Received(r) == req[r].pc # "idle"
Answered(r, status) == req[r].pc = "done" /\ req[r].res.status = status
HasErrorBody(r) ==
    \E f \in {"message", "error"} : f \in DOMAIN req[r].res.body /\ IsString(req[r].res.body[f])

RoutesThrow(r) ==
    LET q == req'[r].body.query
        mockThrows == ~IsString(q)
    IN
    IF impl # "routes" THEN Undef
    ELSE IF \E o \in DataOutcomes : ExecuteQuerySettles(r, o) /\ executeQuery(req[r].sql.query, o).threw
    THEN TypeErrorUndefined
    ELSE IF /\ mockThrows
            /\ \/ req[r].pc = "idle" /\ Received(r)' /\ ~QueryIsRequired(req'[r].body)
                     /\ Truthy(schemaCache) /\ ~isValidApiKey
               \/ (\E o \in SchemaOutcomes : GetDatabaseSchemaSettles(r, o)) /\ ~isValidApiKey
               \/ \E e \in LlmErrors \cup {SyntaxErrorJson} : SqlCallFails(r, e) \/ AnalyzeCallFails(r, e)
               \/ (\E o \in DataOutcomes : ExecuteQuerySettles(r, o)) /\ ~isValidApiKey
    THEN TypeErrorNotAFunction
    ELSE Undef

\* C5: whenever a pipeline step throws inside the POST /api/query handler, the
\* handler answers 500 with a body carrying the thrown error's message, and no 200
\* body is sent for that request.
C5_ThrowIs500WithMessage ==
    [][ \A r \in Slots :
          LET thrown == RoutesThrow(r) IN
          /\ thrown # Undef =>
                /\ req'[r].pc = "done"
                /\ req'[r].res.status = 500
                /\ req'[r].res.body.error = Lit(thrown.message)
                /\ "data" \notin DOMAIN req'[r].res.body
          /\ (req[r].pc = "done" /\ req'[r].pc = "done") => req'[r].res = req[r].res
      ]_vars

\* C5 witness: the handler answered 500 with the TypeError that executeQuery threw
C5_Witness ==
    \E r \in Slots :
       /\ Answered(r, 500)
       /\ req[r].res.body.error = Lit(TypeErrorUndefined.message)
       /\ req[r].calls[Len(req[r].calls)] = "data"

SevenFields == {"queryUnderstanding", "sqlQuery", "databaseResults", "title", "data",
                "insights", "recommendations"}

\* C6: for every combination of outcomes of the two LLM calls and the data-API call,
\* a POST /api/query with a valid question is answered with a body that holds all
\* seven fields.
C6_AsStated ==
    \A r \in Slots :
       (req[r].pc = "done" /\ IsString(QuestionField(req[r].body)) /\ req[r].res.status # 400)
          => SevenFields \subseteq DOMAIN req[r].res.body


\* the dataset the first matching rule picks on a lower-cased text, the first rule
\* asking for "top" and `pointWord`
FirstMatchingDataset(lower, pointWord) ==
    IF includes(lower, "top") /\ includes(lower, pointWord) THEN getMockTopPointsEarners
    ELSE IF includes(lower, "expiring") THEN getMockExpiringPoints
    ELSE IF includes(lower, "challenge") /\ includes(lower, "completion")
    THEN getMockChallengeCompletions
    ELSE getMockTopPointsEarners

ExecuteQueryReturned(dataset) ==
    /\ fnOut.exec # Undef
    /\ ~fnOut.exec.result.threw
    /\ fnOut.exec.result.value =
          IF fnOut.exec.outcome.ok THEN fnOut.exec.outcome.data ELSE dataset

\* C7 as stated: when the data-API call fails, executeQuery returns the dataset of
\* the first matching rule on the lower-cased SQL, the first rule being "top" and
\* "point"; when the call succeeds it returns the upstream body.
C7_AsStated ==
    fnOut.exec # Undef
       => ExecuteQueryReturned(FirstMatchingDataset(toLowerCase(fnArg), "point"))

\* C7 amended: when the data-API call fails, executeQuery called with an SQL string
\* returns the dataset of the first matching rule on the lower-cased SQL: top points
\* earners if it contains "top" and "points", else expiring points if it contains
\* "expiring", else challenge completions if it contains "challenge" and
\* "completion", else top points earners; when the call succeeds it returns the
\* upstream body unchanged and never mock records.
C7_FallbackKeyedOnPoints ==
    fnOut.exec # Undef
       => /\ ExecuteQueryReturned(FirstMatchingDataset(toLowerCase(fnArg), "points"))
          /\ fnOut.exec.outcome.ok => fnOut.exec.result.value.src = "upstream"
          /\ ~fnOut.exec.outcome.ok => fnOut.exec.result.value.src # "upstream"

\* C7 witness: the call failed on an SQL text with "top", "point" (not "points") and
\* "expiring", and the expiring-points records came back
C7_Witness ==
    LET lower == toLowerCase(fnArg) IN
    /\ fnOut.exec # Undef
    /\ ~fnOut.exec.outcome.ok
    /\ includes(lower, "top") /\ includes(lower, "point") /\ ~includes(lower, "points")
    /\ includes(lower, "expiring")
    /\ fnOut.exec.result = Return(getMockExpiringPoints)

\* the category the first matching rule gives a question
ClaimedCategory(question) ==
    LET lower == toLowerCase(question) IN
    IF includes(lower, "top") /\ includes(lower, "point") THEN "top"
    ELSE IF includes(lower, "expiring") THEN "expiring"
    ELSE IF includes(lower, "challenge") /\ includes(lower, "completion") THEN "challenge"
    ELSE "default"

CannedSql(category) ==
    CASE category = "top"       -> [query |-> Str(MockSqlTop), understanding |-> Lit(UnderstandingTop)]
      [] category = "expiring"  -> [query |-> Str(MockSqlExpiring), understanding |-> Lit(UnderstandingExpiring)]
      [] category = "challenge" -> [query |-> Str(MockSqlChallenge), understanding |-> Lit(UnderstandingChallenge)]
      [] OTHER                  -> [query |-> Str(MockSqlDefault), understanding |-> Lit(UnderstandingDefault)]

CannedTitle(category) ==
    CASE category = "top"       -> TitleTop
      [] category = "expiring"  -> TitleExpiring
      [] category = "challenge" -> TitleChallenge
      [] OTHER                  -> TitleDefault

\* C8: the mock generators behind generateSQL and analyzeQueryResults each pick
\* their canned response by the first matching rule on the lower-cased question
\* ("top" and "point", else "expiring", else "challenge" and "completion", else the
\* default), so both pick the same category for every question.
C8_SameCategoryByFirstRule ==
    LET category == ClaimedCategory(fnArg) IN
    /\ fnOut.sql # Undef => fnOut.sql = CannedSql(category)
    /\ fnOut.analysis # Undef =>
          /\ fnOut.analysis.title = Lit(CannedTitle(category))
          /\ fnOut.analysis.insights = List(3, CannedTitle(category))
          /\ fnOut.analysis.recommendations = List(2, CannedTitle(category))

\* C8 witness: a question matching both "top"+"point" and "expiring" got the
\* top-points response from both generators
C8_Witness ==
    LET lower == toLowerCase(fnArg) IN
    /\ includes(lower, "top") /\ includes(lower, "point") /\ includes(lower, "expiring")
    /\ fnOut.sql = CannedSql("top")
    /\ fnOut.analysis # Undef /\ fnOut.analysis.title = Lit(TitleTop)

\* the dataset that belongs to a category
DatasetOf(category) ==
    CASE category = "expiring"  -> getMockExpiringPoints
      [] category = "challenge" -> getMockChallengeCompletions
      [] OTHER                  -> getMockTopPointsEarners

\* request r was answered by server/routes.ts without the LLM and without the data API
AnsweredFromMocks(r) ==
    /\ impl = "routes"
    /\ Answered(r, 200)
    /\ IsString(req[r].body.query)
    /\ req[r].sql = generateMockSQLResponse(req[r].body.query.s)
    /\ req[r].analysis = generateMockAnalysisResponse(req[r].body.query.s)
    /\ req[r].results.src # "upstream"

\* C9: with the LLM and the data API both unavailable, server/routes.ts answers with
\* the canned dataset of the question's recognised phrase in `data`, so `data` and
\* the mock analysis title describe the same category.
C9_AsStated ==
    \A r \in Slots :
       AnsweredFromMocks(r) =>
          LET category == ClaimedCategory(req[r].body.query.s) IN
          /\ req[r].res.body.title = Lit(CannedTitle(category))
          /\ req[r].res.body.data = DatasetOf(category)

SchemaDirWasEmpty ==
    /\ loaded # Undef
    /\ loaded.log \cap {"Schema directory does not exist. Creating it.",
                        "No schema files found. Creating sample schema file."} # {}

SamplesCreated == fsDir # Null /\ SampleFiles \subseteq fsDir.files

\* C10 as stated: when the schema directory is missing or holds no .yml/.yaml file,
\* loadDatabaseSchema creates the sample schema files and returns at least one table.
C10_AsStated ==
    SchemaDirWasEmpty => SamplesCreated /\ loaded.tables # {}

\* C10 amended: when the schema directory is missing or holds no .yml/.yaml file and
\* the directory and the sample files can be written, loadDatabaseSchema creates the
\* sample schema files and returns at least one table; when they cannot be written
\* it returns an empty tables list.
C10_SamplesWhenWritable ==
    SchemaDirWasEmpty =>
       IF fsWritable
       THEN SamplesCreated /\ loaded.tables # {}
            /\ loaded.tables \subseteq {f.name : f \in SampleFiles}
       ELSE ~SamplesCreated /\ loaded.tables = {}

\* C10 witness: a directory holding only README.md got the sample files and one of
\* them was loaded
C10_Witness ==
    /\ SchemaDirWasEmpty
    /\ fsDir # Null /\ File("README.md", FALSE, "other") \in fsDir.files
    /\ SamplesCreated
    /\ Cardinality(loaded.tables) = 1


\* C11: GET /api/schema answers 200 with a body whose top-level field is `tables`,
\* in server/routes.ts as well as in server/langchain/routes.ts.
C11_AsStated ==
    \A r \in Slots :
       req[r].pc = "done" =>
          /\ req[r].res.status = 200
          /\ "tables" \in DOMAIN req[r].res.body


\* in this step request r starts a getDatabaseSchema call / its upstream request settles
GetDatabaseSchemaStarts(r) == req[r].pc = "idle" /\ req'[r].pc # "idle" /\ impl # "langchain"
GetDatabaseSchemaCompletes(r) == \E o \in SchemaOutcomes : GetSchemaSettles(r, o)

IsMockRows(rows) ==
    rows \in {getMockCustomers, getMockTransactions, getMockChallenges, getMockCompletions}

\* request r of the chain-based agent holds a generated query that is not a SELECT
HoldsNonSelect(r) ==
    /\ impl = "langchain"
    /\ req[r].sql # Undef
    /\ "select" \notin Substrings(Lower(req[r].sql.s[1]))

\* C13: a generated query whose text does not start with "select" is never sent to
\* the data API by the SQL query tool; the tool's error result makes
\* processQuestion (agent.ts) answer with mock data while sqlQuery still reports
\* that query.
C13_OnlySelectReachesDataApi ==
    \A r \in Slots :
       HoldsNonSelect(r) =>
          /\ Count(req[r].calls, "data") = 0
          /\ req[r].pc \in {"analyze", "done"}
          /\ IsMockRows(req[r].results)
          /\ req[r].pc = "done" =>
                /\ req[r].res.status = 200
                /\ req[r].res.body.sqlQuery = req[r].sql
                /\ req[r].res.body.data = req[r].results

\* C13 witness: a DELETE was generated, never sent, and answered with mock customers
C13_Witness ==
    \E r \in Slots :
       /\ HoldsNonSelect(r)
       /\ req[r].pc = "done"
       /\ req[r].calls = <<"llm-sql", "llm-insights">>
       /\ req[r].res.body.sqlQuery = Str(<<"DELETE", "customers">>)
       /\ req[r].res.body.data = getMockCustomers


\* the condition under which the claim lets a call go to the LLM
LiveAsClaimed == KeyLooksValid /\ ~apiKeyQuotaExceeded

\* C14: generateSQL and analyzeQueryResults start a live LLM call only when
\* OPENAI_API_KEY is set, starts with "sk-", is longer than 20 characters and the
\* quota flag is false; in every other case they return the mock response without
\* an external call.
C14_LiveOnlyWithValidKey ==
    [][ \A r \in Slots :
          LET question == req'[r].body.query
              before == LlmCalls(req[r].calls)
              after == LlmCalls(req'[r].calls)
          IN
          /\ EntersGenerateSQL(r) =>
                IF LiveAsClaimed
                THEN req'[r].pc = "genSQL" /\ after = before + 1
                     /\ req'[r].calls[Len(req'[r].calls)] = "llm-sql"
                ELSE /\ after = before
                     /\ IsString(question) =>
                           /\ req'[r].pc = "exec"
                           /\ req'[r].sql = generateMockSQLResponse(question.s)
          /\ EntersAnalyze(r) =>
                IF LiveAsClaimed
                THEN req'[r].pc = "analyze" /\ after = before + 1
                     /\ req'[r].calls = Append(req[r].calls, "llm-insights")
                ELSE /\ req'[r].calls = req[r].calls
                     /\ IsString(question) =>
                           /\ req'[r].pc = "done"
                           /\ req'[r].analysis = generateMockAnalysisResponse(question.s)
      ]_vars

\* C14 witness: with a long key that does not start with "sk-" a request was
\* answered 200 from the mocks without an LLM call
C14_Witness ==
    /\ openaiKey = Key("pk-", 40)
    /\ ~apiKeyQuotaExceeded
    /\ \E r \in Slots :
          /\ Answered(r, 200)
          /\ req[r].calls = <<"schema", "data">>
          /\ req[r].sql = generateMockSQLResponse(req[r].body.query.s)
          /\ req[r].analysis = generateMockAnalysisResponse(req[r].body.query.s)


\* C15: within one request of server/routes.ts, when the SQL-generation LLM call
\* fails with a quota error the flag is set before the insights step starts, so the
\* insights step of that request makes no LLM call and returns the mock analysis:
\* the request performs one LLM call, not two.
C15_QuotaInSqlStepSkipsInsightsLlm ==
    [][ \A r \in Slots :
          /\ (\E e \in LlmErrors : QuotaErrorAsClaimed(e) /\ SqlCallFails(r, e))
                => /\ apiKeyQuotaExceeded'
                   /\ LlmCalls(req'[r].calls) = 1
                   /\ IsString(req[r].body.query) => req'[r].pc = "exec"
          /\ (apiKeyQuotaExceeded /\ EntersAnalyze(r))
                => /\ req'[r].calls = req[r].calls
                   /\ LlmCalls(req'[r].calls) <= 1
                   /\ req'[r].pc = "done"
                   /\ IsString(req[r].body.query)
                         => req'[r].analysis = generateMockAnalysisResponse(req[r].body.query.s)
          /\ apiKeyQuotaExceeded => apiKeyQuotaExceeded'
      ]_vars

\* C15 witness: the only request served so far made one SQL LLM call, the flag is
\* set, and it was answered 200 with the mock analysis and no insights LLM call
C15_Witness ==
    /\ apiKeyQuotaExceeded
    /\ req[2] = Idle
    /\ Answered(1, 200)
    /\ req[1].calls = <<"schema", "llm-sql", "data">>
    /\ req[1].analysis = generateMockAnalysisResponse(req[1].body.query.s)


\* C16: QueryService.executeQuery never throws: whatever generateSQL handed it (an
\* undefined query included) and whatever the data API did, it returns the upstream
\* body or one of the three canned datasets, so the request is not answered 500
\* because of it.
C16_AsStated ==
    [][ \A r \in Slots, o \in DataOutcomes :
          ExecuteQuerySettles(r, o) =>
             LET result == executeQuery(req[r].sql.query, o) IN
             /\ ~result.threw
             /\ result.value \in UpstreamBodies \cup {getMockTopPointsEarners,
                                                      getMockExpiringPoints,
                                                      getMockChallengeCompletions}
             /\ req'[r].results = result.value
      ]_vars


\* the mock records the claimed rule picks for an SQL text
ClaimedAgentMock(sql) ==
    LET lower == toLowerCase(sql) IN
    IF includes(lower, "points_transactions") \/ includes(lower, "transaction")
    THEN getMockTransactions
    ELSE IF includes(lower, "challenges") /\ ~includes(lower, "challenge_completions")
    THEN getMockChallenges
    ELSE IF includes(lower, "challenge_completions") \/ includes(lower, "completion")
    THEN getMockCompletions
    ELSE getMockCustomers

IsErrorFallback(r) == req[r].res.body.title = Lit("Error Processing Query")

\* C17: in processQuestion of agent.ts, when the SQL step returns an error, throws
\* or returns no rows, data becomes the mock records picked from the lower-cased SQL
\* (transactions, else challenges, else completions, else customers); every result
\* that is not the outer error fallback has non-empty data, and a query that
\* succeeded with zero rows gives the same result as a failed one.
C17_MockRecordsReplaceFailedOrEmpty ==
    [][ \A r \in Slots :
          impl = "langchain" =>
             /\ \A o \in AgentDataOutcomes :
                   AgentExecuteSettles(r, o) =>
                      LET failedOrEmpty == ~o.ok \/ o.results = Undef \/ o.results.n = 0 IN
                      IF failedOrEmpty
                      THEN /\ req'[r].results = ClaimedAgentMock(req[r].sql.s)
                           /\ req'[r].meta = Obj(Num(req'[r].results.n), Num(0))
                      ELSE req'[r].results = o.results
             /\ (req[r].pc = "genSQL" /\ req'[r].pc = "analyze")
                   => req'[r].results = ClaimedAgentMock(req'[r].sql.s)
             /\ (req'[r].pc = "done" /\ req'[r].res.status = 200 /\ ~IsErrorFallback(r)')
                   => /\ req'[r].res.body.data = req'[r].results
                      /\ req'[r].res.body.data.n > 0
      ]_vars

\* C17 witness: a join of challenges and challenge_completions was sent to the data
\* API and the answer carries the mock completions
C17_Witness ==
    /\ impl = "langchain"
    /\ \E r \in Slots :
          /\ Answered(r, 200)
          /\ req[r].sql = Str(<<"SELECT", "challenges", "challenge_completions">>)
          /\ req[r].calls = <<"llm-sql", "data", "llm-insights">>
          /\ req[r].res.body.data = getMockCompletions


\* the one insight of the error fallback reads "Error: " followed by a text that
\* ends with the message of the error
CarriesMessage(insights, message) ==
    /\ insights.n = 1
    /\ insights.of[1] = "Error: "
    /\ insights.of[2][Len(insights.of[2])] = message

\* C18: in both LoyaltyAgents, when SQL generation fails processQuestion makes no
\* data-API call and no insights LLM call and resolves to the error fallback:
\* sqlQuery "", no data, databaseResults {count 0, time 0}, title "Error Processing
\* Query", one insight carrying the error message, one recommendation "Try Again";
\* no mock records are substituted.
C18_SqlFailureGivesErrorFallback ==
    [][ \A r \in Slots, e \in LlmErrors :
          AgentSqlRejects(r, e) =>
             /\ req'[r].pc = "done"
             /\ req'[r].calls = <<"llm-sql">>
             /\ req'[r].results = Undef
             /\ req'[r].res.status = 200
             /\ LET body == req'[r].res.body IN
                /\ body.sqlQuery = Str(<<>>)
                /\ body.data.n = 0 /\ ~IsMockRows(body.data)
                /\ body.databaseResults = Obj(Num(0), Num(0))
                /\ body.title = Lit("Error Processing Query")
                /\ CarriesMessage(body.insights, e.message)
                /\ body.recommendations = List(1, "Try Again")
      ]_vars

\* C18 witness: the simplified agent answered with the error fallback after its SQL
\* LLM call was refused for lack of quota
C18_Witness ==
    /\ impl = "simplified"
    /\ \E r \in Slots :
          /\ Answered(r, 200)
          /\ req[r].calls = <<"llm-sql">>
          /\ req[r].res.body.data = EmptyRows
          /\ req[r].res.body.insights =
                List(1, <<"Error: ", <<"Failed to generate SQL: ", QuotaTypeError.message>>>>)


\* in this step the insights step of request r failed: the LLM call threw, or its
\* output could not be parsed as JSON
InsightsStepFails(r) ==
    \/ \E e \in LlmErrors : AgentInsightsRejects(r, e)
    \/ AgentInsightsResolves(r, "unparsable")

\* C19: when the insights LLM call throws or its output cannot be parsed as JSON,
\* processQuestion still returns the sqlQuery, data and databaseResults of the
\* earlier steps unchanged, with title "Data Analysis" and exactly one placeholder
\* insight and one placeholder recommendation.
C19_InsightsFailureIsIsolated ==
    [][ \A r \in Slots :
          InsightsStepFails(r) =>
             /\ req'[r].pc = "done"
             /\ req'[r].res.status = 200
             /\ req'[r].calls = req[r].calls
             /\ LET body == req'[r].res.body IN
                /\ body.sqlQuery = req[r].sql
                /\ body.data = req[r].results
                /\ body.databaseResults = req[r].meta
                /\ body.title = Lit("Data Analysis")
                /\ body.insights.n = 1
                /\ body.recommendations.n = 1
      ]_vars

\* C19 witness: the chain-based agent answered with two upstream rows and the
\* parse-failure placeholder
C19_Witness ==
    /\ impl = "langchain"
    /\ \E r \in Slots :
          /\ Answered(r, 200)
          /\ req[r].res.body.data = Rows("upstream", 2)
          /\ req[r].res.body.databaseResults = Obj(Num(2), Num(0))
          /\ req[r].res.body.insights = List(1, "Unable to parse insights from the analysis.")


\* C20: in every 200 response of POST /api/query, databaseResults.count equals the
\* number of rows in data, on the live-data path and on every mock-data path of
\* server/routes.ts and of both LoyaltyAgents.
C20_AsStated ==
    \A r \in Slots :
       Answered(r, 200) =>
          req[r].res.body.databaseResults.count = Num(req[r].res.body.data.n)


\* C21: under any interleaving of concurrent getDatabaseSchema calls, once
\* schemaCache has been populated its value never changes: a call that started
\* while the cache was empty and finishes later does not overwrite it.
C21_AsStated ==
    [][schemaCache # Null => schemaCache' = schemaCache]_vars


====
